---- MODULE Spec2Model ----
(***************************************************************************)
(* Model of k8s-proxy/resolver.py: LocalResolver, the DNS resolution       *)
(* policy engine that runs in the pod.                                     *)
(*                                                                         *)
(* A domain name is kept as the sequence of its labels, i.e. as the value  *)
(* of name.split(b"."); the byte-string tests of the source (startswith,   *)
(* endswith, count, in) are stated on the labels.  Twisted runs every      *)
(* synchronous stretch of code atomically on the reactor thread, so one    *)
(* action is one such stretch: query() up to the first upstream call it    *)
(* issues, and then each callback/errback chain fired by an upstream       *)
(* outcome.                                                                *)
(***************************************************************************)
EXTENDS Integers, Sequences, FiniteSets, TLC

VARIABLES
    noloop,       \* LocalResolver.noloop       (resolver.py:90)
    local_names,  \* LocalResolver.local_names  (resolver.py:91-94)
    suffixes,     \* LocalResolver.suffixes     (resolver.py:112)
    task          \* the resolution being followed: one call of query() by the
                  \* transport, its pending upstream call and its errbacks

vars == <<noloop, local_names, suffixes, task>>

----------------------------------------------------------------------------
(* The environment: the names and types clients ask for.                   *)

\* Longest host name asked, in labels.
MaxLabels == 3

Types == {"A", "AAAA", "MX"}

\* First labels the client side uses for its probes and sanity checks.
SentinelLabels == {"hellotelepresence", "hellotelepresence123"}

HostLabels == {"foo", "bar", "svc"}

\* Search domains the client machine's resolver may append to a name.
SearchDomains == {<<"bar">>, <<"foo">>, <<"foo", "bar">>}

RECURSIVE SeqsUpTo(_, _)
SeqsUpTo(S, n) ==
    IF n = 0 THEN {<<>>}
    ELSE LET shorter == SeqsUpTo(S, n - 1)
         IN  shorter \cup {Append(s, x) : s \in shorter, x \in S}

HostNames == SeqsUpTo(HostLabels, MaxLabels) \ {<<>>}

ProbeNames == {<<h>> \o d : h \in SentinelLabels, d \in SearchDomains \cup {<<>>}}

SanityNames == {<<"hellotelepresence", "io">>,
                <<"hellotelepresence123", "telepresence", "io">>}

\* Names the specification uses as examples.
ExampleNames == {<<"google", "com">>, <<"www", "google", "com">>, <<"kubernetes">>,
                 <<"foo", "local">>, <<"foo", "bar", "local">>}

Names == HostNames \cup ProbeNames \cup SanityNames \cup ExampleNames

Queries == [name : Names, type : Types]

\* The queries whose first label is a sentinel: probes and sanity checks.
SentinelQueries == {q \in Queries : q.name[1] \in SentinelLabels}

\* The pod's namespace (LocalResolver.namespace).
namespace == "bar"

\* The values telepresence_local_names may configure.
LocalNamesChoices == {{}, {<<"bar">>}}

----------------------------------------------------------------------------
(* Byte-string tests of the source, on label sequences.                    *)

\* label.startswith(b"hellotelepresence")
StartsWithSentinel(label) == label \in SentinelLabels

\* label.endswith(b"telepresence")
EndsWithTelepresence(label) == label \in {"hellotelepresence", "telepresence"}

\* label.startswith(b"svc")
StartsWithSvc(label) == label = "svc"

\* name.endswith(b".local")
EndsWithDotLocal(name) == Len(name) >= 2 /\ name[Len(name)] = "local"

\* b".svc" in name
ContainsDotSvc(name) == \E i \in 2..Len(name) : StartsWithSvc(name[i])

\* name.count(b".")
CountDots(name) == Len(name) - 1

\* name.endswith(b"." + other)
EndsWithDotName(name, other) ==
    /\ Len(name) > Len(other)
    /\ SubSeq(name, Len(name) - Len(other) + 1, Len(name)) = other

\* Python's parts[-n:]
SliceLast(parts, n) ==
    IF n = 0 \/ n >= Len(parts) THEN parts
    ELSE SubSeq(parts, Len(parts) - n + 1, Len(parts))

\* Python's parts[:-n]
SliceButLast(parts, n) ==
    IF n = 0 \/ n >= Len(parts) THEN <<>>
    ELSE SubSeq(parts, 1, Len(parts) - n)

\* b".".join(stem), read back as labels: the join of no label is the empty
\* string, whose split is one empty label.
JoinSplit(stem) == IF stem = <<>> THEN <<"">> ELSE stem

----------------------------------------------------------------------------
(* insort and the suffix list.                                             *)

\* The key without its minus sign: lambda parts: len(parts)
SuffixKey_ascending(suffix) == Len(suffix)

\* lambda parts: -len(parts)
SuffixKey(suffix) == 0 - Len(suffix)

\* insort with `>=` for `>`: a new suffix goes before the stored suffixes of
\* its own length.
insort_before_equal(target_list, new_element) ==
    IF target_list = <<>> THEN <<new_element>>
    ELSE LET before == {i \in 1..Len(target_list) :
                           SuffixKey(target_list[i]) >= SuffixKey(new_element)}
         IN  IF before = {} THEN Append(target_list, new_element)
             ELSE LET i == CHOOSE j \in before : \A k \in before : j <= k
                  IN  SubSeq(target_list, 1, i - 1) \o <<new_element>>
                          \o SubSeq(target_list, i, Len(target_list))

insort(target_list, new_element) ==
    IF target_list = <<>> THEN <<new_element>>
    ELSE LET before == {i \in 1..Len(target_list) :
                           SuffixKey(target_list[i]) > SuffixKey(new_element)}
         IN  IF before = {} THEN Append(target_list, new_element)
             ELSE LET i == CHOOSE j \in before : \A k \in before : j <= k
                  IN  SubSeq(target_list, 1, i - 1) \o <<new_element>>
                          \o SubSeq(target_list, i, Len(target_list))

\* suffix in self.suffixes
Known(sfx, suffix) == \E i \in 1..Len(sfx) : sfx[i] = suffix

\* The list update without its `not in` test.
learn_always(sfx, suffix) == insort(sfx, suffix)

\* The list update of _identify_suffix_probe.
learn(sfx, suffix) == IF Known(sfx, suffix) THEN sfx ELSE insort(sfx, suffix)

RECURSIVE StripFrom(_, _, _)
StripFrom(sfx, parts, i) ==
    IF i > Len(sfx) THEN parts
    ELSE IF SliceLast(parts, Len(sfx[i])) = sfx[i]
         THEN SliceButLast(parts, Len(sfx[i]))
         ELSE StripFrom(sfx, parts, i + 1)

\* The scan run over the list from its end: shortest suffix first.
strip_search_suffix_reversed(sfx, parts) ==
    StripFrom([i \in 1..Len(sfx) |-> sfx[Len(sfx) + 1 - i]], parts, 1)

strip_search_suffix(sfx, parts) == StripFrom(sfx, parts, 1)

----------------------------------------------------------------------------
(* Results, upstream calls and the state of one resolution.                *)

NoQuery == [name |-> <<>>, type |-> "none"]

NoResult == [kind |-> "none", records |-> <<>>, error |-> "none"]

Answer(records) == [kind |-> "answer", records |-> records, error |-> "none"]

Failure(error) == [kind |-> "failure", records |-> <<>>, error |-> error]

\* The addresses each upstream answers with.
ClusterIPs == <<"10.0.0.1">>
FallbackIPs == <<"192.0.2.1">>
NativeIPs == <<"198.51.100.7">>

got_ips(name, ips, record_type) ==
    [i \in 1..Len(ips) |-> [name |-> name, type |-> record_type, address |-> ips[i]]]

\* What an upstream resolver answers: records of the type asked, under the
\* name asked.
UpstreamRecords(call, ips) == got_ips(call.name, ips, call.type)

\* fix_names of _no_loop_kube_query
fix_names(records, real_name) ==
    [i \in 1..Len(records) |-> [records[i] EXCEPT !.name = real_name]]

Call(resolver, q) == [resolver |-> resolver, name |-> q.name, type |-> q.type]

\* query() has issued an upstream call and returned its Deferred.
\*   fb, real: the query of the fallback errback and the name of fix_names
\*             (cluster call), the name of _got_ips (native call);
\*   stack:    the queries of the `failed` errbacks of the enclosing
\*             _handle_search_suffix calls, outermost first.
Pending(call, fb, real, stack) ==
    [status |-> "pending", calls |-> <<call>>, fb |-> fb, real |-> real,
     stack |-> stack, result |-> NoResult]

\* A result is there: no upstream call is pending, no errback is left to run.
Done(result) ==
    [status |-> "done", calls |-> <<>>, fb |-> NoQuery, real |-> <<>>,
     stack |-> <<>>, result |-> result]

\* What one call of query() leaves: the step r of the resolution and the
\* suffix list.
With(r, sfx) == [r |-> r, sfx |-> sfx]

\* The errback that asks the fallback resolver and stays in place: the
\* failure of that call runs it again.
failed_stays(stack, error, real) ==
    IF stack = <<>> THEN Done(Failure(error))
    ELSE Pending(Call("fallback", stack[Len(stack)]), NoQuery, real, stack)

\* A failure reaches the innermost `failed` errback, which asks the fallback
\* resolver with the query of its own level; with no errback left the
\* failure is the caller's.
failed(stack, error, real) ==
    IF stack = <<>> THEN Done(Failure(error))
    ELSE Pending(Call("fallback", stack[Len(stack)]), NoQuery, real,
                 SubSeq(stack, 1, Len(stack) - 1))

----------------------------------------------------------------------------
(* LocalResolver.query and its helpers.                                    *)

\* The sanity check with its endswith read as a match of whole labels.
identify_sanity_check_labels(real_name) ==
    /\ StartsWithSentinel(real_name[1])
    /\ Len(real_name) >= 2
    /\ real_name[Len(real_name)] = "io"
    /\ real_name[Len(real_name) - 1] = "telepresence"

identify_sanity_check(real_name) ==
    /\ StartsWithSentinel(real_name[1])
    /\ Len(real_name) >= 2
    /\ real_name[Len(real_name)] = "io"
    /\ EndsWithTelepresence(real_name[Len(real_name) - 1])

identify_suffix_probe(parts) == StartsWithSentinel(parts[1])

\* The completion with `elif` for the two-label case: a one-label name gets
\* the namespace in parts only and keeps its name.
kube_name_elif(name) ==
    IF EndsWithDotLocal(name) THEN name
    ELSE IF Len(name) = 1 THEN name
    ELSE IF Len(name) = 2 THEN name \o <<"svc", "cluster", "local">>
    ELSE IF name[Len(name)] = "svc" THEN name \o <<"cluster", "local">>
    ELSE name

\* Kubernetes completion of the name of new_query.
kube_name(name) ==
    IF EndsWithDotLocal(name) THEN name
    ELSE LET parts == IF Len(name) = 1 THEN Append(name, namespace) ELSE name
         IN  IF Len(parts) = 2 THEN parts \o <<"svc", "cluster", "local">>
             ELSE IF parts[Len(parts)] = "svc" THEN parts \o <<"cluster", "local">>
             ELSE name

no_loop_kube_query(q, real_name, stack) ==
    Pending(Call("cluster", [q EXCEPT !.name = kube_name(q.name)]),
            q, real_name, stack)

\* The guard with the dot count off by one: names without a dot only.
cluster_safe_no_dot(name) ==
    \/ CountDots(name) = 0
    \/ EndsWithDotLocal(name)
    \/ ContainsDotSvc(name)
    \/ name \in local_names
    \/ \E ln \in local_names : EndsWithDotName(name, ln)

\* The guard with the dot count off by one the other way: up to two dots.
cluster_safe_two_dots(name) ==
    \/ CountDots(name) \in {0, 1, 2}
    \/ EndsWithDotLocal(name)
    \/ ContainsDotSvc(name)
    \/ name \in local_names
    \/ \E ln \in local_names : EndsWithDotName(name, ln)

\* The test that guards the cluster resolver in tunnel mode.
cluster_safe(name) ==
    \/ CountDots(name) \in {0, 1}
    \/ EndsWithDotLocal(name)
    \/ ContainsDotSvc(name)
    \/ name \in local_names
    \/ \E ln \in local_names : EndsWithDotName(name, ln)

\* The branch of query() for type A.
query_A(q, real_name, stack) ==
    IF noloop
    THEN IF cluster_safe(q.name)
         THEN no_loop_kube_query(q, real_name, stack)
         ELSE Pending(Call("fallback", q), NoQuery, real_name, stack)
    ELSE Pending(Call("native", q), NoQuery, real_name, stack)

\* query() with its type dispatch ending in the type-A branch: every type
\* that is not AAAA is resolved as A is.
RECURSIVE query_other_as_A(_, _, _, _)
query_other_as_A(q, real_name, stack, sfx) ==
    LET parts == q.name
        stem  == strip_search_suffix(sfx, parts)
    IN  IF identify_sanity_check(real_name)
        THEN With(failed(stack, "AuthoritativeDomainError", real_name), sfx)
        ELSE IF identify_suffix_probe(parts)
        THEN With(Done(Answer(got_ips(real_name, <<"127.0.0.1">>, "A"))),
                  learn(sfx, Tail(parts)))
        ELSE IF stem # parts
        THEN query_other_as_A([q EXCEPT !.name = JoinSplit(stem)], q.name,
                              Append(stack, q), sfx)
        ELSE IF q.type = "AAAA"
        THEN query_other_as_A([q EXCEPT !.type = "A"], real_name, stack, sfx)
        ELSE With(query_A(q, real_name, stack), sfx)

RECURSIVE query(_, _, _, _)
query(q, real_name, stack, sfx) ==
    LET parts == q.name
        stem  == strip_search_suffix(sfx, parts)
    IN  IF identify_sanity_check(real_name)
        THEN With(failed(stack, "AuthoritativeDomainError", real_name), sfx)
        ELSE IF identify_suffix_probe(parts)
        THEN With(Done(Answer(got_ips(real_name, <<"127.0.0.1">>, "A"))),
                  learn(sfx, Tail(parts)))
        ELSE IF stem # parts
        THEN \* _handle_search_suffix: recurse on the stripped copy
             query([q EXCEPT !.name = JoinSplit(stem)], q.name,
                   Append(stack, q), sfx)
        ELSE IF q.type = "A"
        THEN With(query_A(q, real_name, stack), sfx)
        ELSE IF q.type = "AAAA"
        THEN query([q EXCEPT !.type = "A"], real_name, stack, sfx)
        ELSE With(Pending(Call("fallback", q), NoQuery, real_name, stack), sfx)

----------------------------------------------------------------------------
(* The callbacks and errbacks an upstream outcome fires.                   *)

PendingCall(t) == t.calls[Len(t.calls)]

\* The fallback added with addBoth: it runs after an answer of Kube DNS too.
cluster_answered_then_fallback(t) ==
    Pending(Call("fallback", t.fb), NoQuery, t.real, t.stack)

\* Kube DNS answers: fix_names, and the result passes every `failed`.
cluster_answered(t) ==
    Done(Answer(fix_names(UpstreamRecords(PendingCall(t), ClusterIPs), t.real)))

\* The cluster query without its fallback errback: the failure of Kube DNS
\* goes on to the `failed` errbacks and the caller.
cluster_failed_no_errback(t) == failed(t.stack, "ResolverError", t.real)

\* Kube DNS fails or times out: the fallback errback asks the fallback
\* resolver with the query of its level.
cluster_failed(t) == Pending(Call("fallback", t.fb), NoQuery, t.real, t.stack)

fallback_answered(t) == Done(Answer(UpstreamRecords(PendingCall(t), FallbackIPs)))

fallback_failed(t) == failed(t.stack, "ResolverError", t.real)

\* resolve() returns in its worker thread: _got_ips under the real name.
native_answered(t) == Done(Answer(got_ips(t.real, NativeIPs, "A")))

\* The native lookup with no errback after it: one more try at the fallback
\* resolver instead of the DomainError.
native_failed_retried(t) ==
    Pending(Call("fallback", [name |-> PendingCall(t).name, type |-> "A"]),
            NoQuery, t.real, t.stack)

\* resolve() raises: _got_error turns it into a DomainError.
native_failed(t) == failed(t.stack, "DomainError", t.real)

----------------------------------------------------------------------------
(* The state of one resolution, from query() to its result.                *)

Idle == [asked |-> NoQuery, seen |-> <<>>, status |-> "idle", calls |-> <<>>,
         outcomes |-> <<>>, fb |-> NoQuery, real |-> <<>>, stack |-> <<>>,
         result |-> NoResult]

\* The resolution of q that query() started with step r, under suffix list sfx.
Started(q, sfx, r) ==
    [asked |-> q, seen |-> sfx, status |-> r.status, calls |-> r.calls,
     outcomes |-> <<>>, fb |-> r.fb, real |-> r.real, stack |-> r.stack,
     result |-> r.result]

\* Resolution t after its pending call ended with `outcome` and the
\* callbacks made step r.
Continue(t, outcome, r) ==
    [t EXCEPT !.status = r.status,
              !.calls = t.calls \o r.calls,
              !.outcomes = Append(t.outcomes, outcome),
              !.fb = r.fb, !.real = r.real, !.stack = r.stack,
              !.result = r.result]

\* query(q) as the transport calls it, under suffix list sfx.
Start(q, sfx) == Started(q, sfx, query(q, q.name, <<>>, sfx).r)

\* The callback chain of the Deferred of t's pending call (d.addCallback,
\* d.addErrback), fired by the outcome of that call.
Advance(t, outcome) ==
    LET resolver == PendingCall(t).resolver
    IN  Continue(t, outcome,
            IF resolver = "cluster"
            THEN IF outcome = "ok" THEN cluster_answered(t) ELSE cluster_failed(t)
            ELSE IF resolver = "fallback"
            THEN IF outcome = "ok" THEN fallback_answered(t) ELSE fallback_failed(t)
            ELSE IF outcome = "ok" THEN native_answered(t) ELSE native_failed(t))

----------------------------------------------------------------------------
(* The state machine.                                                      *)

Init ==
    /\ noloop \in BOOLEAN
    /\ local_names \in LocalNamesChoices
    /\ suffixes = <<>>
    /\ task = Idle

\* The transport hands query q to query().
Receive(q) ==
    /\ task.status = "idle"
    /\ \E w \in {query(q, q.name, <<>>, suffixes)} :
           /\ task' = Started(q, suffixes, w.r)
           /\ suffixes' = w.sfx
    /\ UNCHANGED <<noloop, local_names>>

\* The transport writes the result of the finished query back to the client.
Respond ==
    /\ task.status = "done"
    /\ task' = Idle
    /\ UNCHANGED <<noloop, local_names, suffixes>>

\* Another query is handled while the followed one waits for its upstream.
\* Tracked for the queries that query() answers on the spot (probes, sanity
\* checks): they are the only ones that touch the shared suffix list.
Interleave(q) ==
    /\ task.status = "pending"
    /\ \E w \in {query(q, q.name, <<>>, suffixes)} :
           /\ w.r.status = "done"
           /\ suffixes' = w.sfx
    /\ UNCHANGED <<noloop, local_names, task>>

Waits(resolver) ==
    task.status = "pending" /\ PendingCall(task).resolver = resolver

ClusterAnswers ==
    /\ Waits("cluster")
    /\ task' = Advance(task, "ok")
    /\ UNCHANGED <<noloop, local_names, suffixes>>

ClusterFails ==
    /\ Waits("cluster")
    /\ task' = Advance(task, "fail")
    /\ UNCHANGED <<noloop, local_names, suffixes>>

FallbackAnswers ==
    /\ Waits("fallback")
    /\ task' = Advance(task, "ok")
    /\ UNCHANGED <<noloop, local_names, suffixes>>

FallbackFails ==
    /\ Waits("fallback")
    /\ task' = Advance(task, "fail")
    /\ UNCHANGED <<noloop, local_names, suffixes>>

NativeAnswers ==
    /\ Waits("native")
    /\ task' = Advance(task, "ok")
    /\ UNCHANGED <<noloop, local_names, suffixes>>

NativeFails ==
    /\ Waits("native")
    /\ task' = Advance(task, "fail")
    /\ UNCHANGED <<noloop, local_names, suffixes>>

Next ==
    \/ \E q \in Queries : Receive(q)
    \/ Respond
    \/ \E q \in SentinelQueries : Interleave(q)
    \/ ClusterAnswers
    \/ ClusterFails
    \/ FallbackAnswers
    \/ FallbackFails
    \/ NativeAnswers
    \/ NativeFails

Spec == Init /\ [][Next]_vars

\* Every upstream call ends: the Deferred of a query to Kube DNS (timeout
\* 0.1 s) or to the fallback resolver fires, the thread of resolve() returns.
UpstreamEnds ==
    /\ WF_vars(ClusterAnswers \/ ClusterFails)
    /\ WF_vars(FallbackAnswers \/ FallbackFails)
    /\ WF_vars(NativeAnswers \/ NativeFails)

LiveSpec == Spec /\ UpstreamEnds

----------------------------------------------------------------------------
(* Properties.                                                             *)

Finished == task.status = "done"

Answered == Finished /\ task.result.kind = "answer"

Failed == Finished /\ task.result.kind = "failure"

\* The upstream calls of the followed resolution made to `resolver`.
CallsTo(resolver) ==
    {i \in 1..Len(task.calls) : task.calls[i].resolver = resolver}

\* The i-th upstream call of the followed resolution has ended in failure.
CallFailed(i) == i <= Len(task.outcomes) /\ task.outcomes[i] = "fail"

\* C1: every record of a successful answer carries the name the top-level
\* caller asked, also when the answer comes from the fallback resolver
\* inside a suffix-strip recursion and when suffixes are stripped in nested
\* recursions.
C1_AnswerNamesAreTheAskedName ==
    Answered =>
        \A i \in 1..Len(task.result.records) :
            task.result.records[i].name = task.asked.name

\* C2: whatever answer a top-level AAAA query gets consists of A records
\* only, on every path.
C2_AAAANeverYieldsAAAA ==
    (Answered /\ task.asked.type = "AAAA") =>
        \A i \in 1..Len(task.result.records) :
            task.result.records[i].type = "A"

RECURSIVE Replay(_, _, _)
\* Resolution t driven by the upstream outcomes outcomes[i], outcomes[i+1], ...
Replay(t, outcomes, i) ==
    IF i > Len(outcomes) \/ t.status # "pending" THEN t
    ELSE Replay(Advance(t, outcomes[i]), outcomes, i + 1)

\* The A query for the name of the followed query, resolved from the same
\* suffix list and given the same upstream outcomes.
TwinA == Replay(Start([task.asked EXCEPT !.type = "A"], task.seen),
                task.outcomes, 1)

\* C3: an AAAA query has the outcome of the A query for the same name: the
\* same upstream calls (resolver, name, type) in the same order and the same
\* result.
C3_AAAASameOutcomeAsA ==
    (task.status # "idle" /\ task.asked.type = "AAAA") =>
        /\ TwinA.calls = task.calls
        /\ TwinA.status = task.status
        /\ TwinA.result = task.result

\* C4: a query whose name starts with "hellotelepresence" and ends with
\* "telepresence.io" fails with the authoritative sanity-check error, for
\* every type, mode and suffix list, without any upstream call and without
\* any change of the suffix list.
C4_SanityCheckFails ==
    (task.status # "idle" /\ task.asked.name \in SanityNames) =>
        /\ Finished
        /\ task.result = Failure("AuthoritativeDomainError")
        /\ task.calls = <<>>
        /\ suffixes = task.seen

C4_Witness ==
    /\ Finished
    /\ task.asked = [name |-> <<"hellotelepresence", "io">>, type |-> "MX"]
    /\ Len(suffixes) = 2
    /\ noloop

\* A name whose first label starts with the sentinel and that is no sanity
\* check.
IsProbeName(name) == name[1] \in SentinelLabels /\ name \notin SanityNames

\* C5: a suffix probe is answered, for every type and mode, with exactly one
\* A record 127.0.0.1 under the asked name and without any upstream call;
\* the labels after its first are a learned suffix afterwards, added to the
\* list if and only if they were not in it.
C5_ProbeLearnsAndAnswersLoopback ==
    (task.status # "idle" /\ IsProbeName(task.asked.name)) =>
        /\ Finished
        /\ task.result = Answer(<<[name |-> task.asked.name, type |-> "A",
                                   address |-> "127.0.0.1"]>>)
        /\ task.calls = <<>>
        /\ \E i \in 1..Len(suffixes) : suffixes[i] = Tail(task.asked.name)
        /\ \A i \in 1..Len(task.seen) :
               \E j \in 1..Len(suffixes) : suffixes[j] = task.seen[i]
        /\ Len(suffixes) = Len(task.seen)
               + (IF \E i \in 1..Len(task.seen) :
                        task.seen[i] = Tail(task.asked.name)
                  THEN 0 ELSE 1)

C5_Witness ==
    /\ Finished
    /\ task.asked = [name |-> <<"hellotelepresence123", "foo", "bar">>,
                     type |-> "AAAA"]
    /\ task.seen = << <<"bar">> >>
    /\ suffixes = << <<"foo", "bar">>, <<"bar">> >>

\* No suffix is stored twice.
NoDuplicateSuffix ==
    \A i, j \in 1..Len(suffixes) : suffixes[i] = suffixes[j] => i = j

\* No stored suffix has fewer labels than one stored after it.
LongestFirst ==
    \A i, j \in 1..Len(suffixes) :
        i < j => Len(suffixes[i]) >= Len(suffixes[j])

\* A step that changes the suffix list inserts one suffix that was not in
\* it, keeps the stored suffixes and their order, puts the new suffix after
\* every suffix of at least its length (arrival order among equals) and
\* before every shorter one, and is the handling of a probe query: the
\* followed query with this suffix, or a query handled while the followed
\* query waits.
SuffixListStep ==
    suffixes' # suffixes =>
        \E p \in 1..Len(suffixes') :
            /\ suffixes' = SubSeq(suffixes, 1, p - 1) \o <<suffixes'[p]>>
                               \o SubSeq(suffixes, p, Len(suffixes))
            /\ \A i \in 1..Len(suffixes) : suffixes[i] # suffixes'[p]
            /\ \A i \in 1..(p - 1) : Len(suffixes'[i]) >= Len(suffixes'[p])
            /\ \A i \in (p + 1)..Len(suffixes') :
                   Len(suffixes'[i]) < Len(suffixes'[p])
            /\ \/ /\ task.status = "idle"
                  /\ IsProbeName(task'.asked.name)
                  /\ Tail(task'.asked.name) = suffixes'[p]
               \/ task.status = "pending" /\ task' = task

\* C6: in every reachable state, whatever the interleaving of the queries,
\* the suffix list has no duplicate and is ordered by non-increasing label
\* count; every change of the list is the insertion of an unknown suffix by
\* a probe, after the stored suffixes of its length, and removes nothing.
C6_SuffixListUnderInterleaving ==
    [](NoDuplicateSuffix /\ LongestFirst) /\ [][SuffixListStep]_vars

C6_Witness ==
    /\ task.status = "pending"
    /\ task.seen = <<>>
    /\ suffixes = << <<"foo", "bar">>, <<"foo">>, <<"bar">>, <<>> >>

\* C7 as stated: the stored list is sorted by strictly decreasing label
\* count, no two adjacent suffixes have the same number of labels.
C7_StrictlyDecreasingLabelCount ==
    \A i \in 1..(Len(suffixes) - 1) :
        Len(suffixes[i]) > Len(suffixes[i + 1])

\* C7, amended: the stored list is sorted by non-increasing label count:
\* adjacent suffixes may have the same number of labels, a suffix is never
\* followed by a longer one.
C7_NonIncreasingLabelCount ==
    \A i \in 1..(Len(suffixes) - 1) :
        Len(suffixes[i]) >= Len(suffixes[i + 1])

C7_Witness ==
    /\ Len(suffixes) = 4
    /\ \E i \in 1..3 : Len(suffixes[i]) = Len(suffixes[i + 1])
    /\ task.status = "idle"

\* C8: in tunnel mode, when the cluster resolver fails for a type-A query,
\* the resolution makes exactly one fallback-resolver call, and that call
\* carries the query as the caller asked it, also when the cluster-safe name
\* was reached by stripping a learned suffix.
C8_ClusterFailureOneFallbackCallAsAsked ==
    (noloop /\ task.asked.type = "A") =>
        \A i \in CallsTo("cluster") :
            CallFailed(i) =>
                /\ Len(task.calls) > i
                /\ task.calls[i + 1] = Call("fallback", task.asked)
                /\ Cardinality(CallsTo("fallback")) = 1

\* The type-A query for `name` is followed, in tunnel mode without learned
\* suffixes and without configured local names.
AskedPlainA(name) ==
    /\ noloop /\ local_names = {} /\ task.seen = <<>>
    /\ task.status # "idle"
    /\ task.asked = [name |-> name, type |-> "A"]

\* C9 as stated: in tunnel mode with no learned suffix and no local name,
\* "google.com" goes directly to the fallback resolver and the cluster
\* resolver is never asked, while "kubernetes" and "foo.svc" go to the
\* cluster resolver first.
C9_GoogleComNotClusterSafe ==
    /\ AskedPlainA(<<"google", "com">>) =>
           /\ task.calls[1].resolver = "fallback"
           /\ CallsTo("cluster") = {}
    /\ AskedPlainA(<<"kubernetes">>) => task.calls[1].resolver = "cluster"
    /\ AskedPlainA(<<"foo", "svc">>) => task.calls[1].resolver = "cluster"

\* The cluster resolver is asked first, for `completed`, and the fallback
\* resolver only after it failed, with the query as asked.
ClusterFirst(completed) ==
    /\ task.calls[1] = [resolver |-> "cluster", name |-> completed, type |-> "A"]
    /\ \A i \in CallsTo("fallback") :
           i = 2 /\ CallFailed(1) /\ task.calls[2] = Call("fallback", task.asked)
    /\ Len(task.calls) <= 2

\* C9, amended: "google.com" has one dot and is cluster-safe, like
\* "kubernetes" and "foo.svc": each goes to the cluster resolver first, as
\* its Kubernetes completion, and to the fallback resolver only after the
\* cluster resolver failed; "www.google.com", with two dots, is not
\* cluster-safe and goes directly to the fallback resolver.
C9_OneDotIsClusterSafe ==
    /\ AskedPlainA(<<"google", "com">>) =>
           ClusterFirst(<<"google", "com", "svc", "cluster", "local">>)
    /\ AskedPlainA(<<"kubernetes">>) =>
           ClusterFirst(<<"kubernetes", "bar", "svc", "cluster", "local">>)
    /\ AskedPlainA(<<"foo", "svc">>) =>
           ClusterFirst(<<"foo", "svc", "svc", "cluster", "local">>)
    /\ AskedPlainA(<<"www", "google", "com">>) =>
           task.calls = <<Call("fallback", task.asked)>>

C9_Witness ==
    /\ AskedPlainA(<<"google", "com">>)
    /\ Answered
    /\ Len(task.calls) = 2

\* The shape C10 calls not cluster-safe: more than one dot, not ending in
\* ".local", no ".svc", not a configured local name nor a subdomain of one.
NotClusterSafeShape(name) ==
    /\ CountDots(name) > 1
    /\ ~EndsWithDotLocal(name)
    /\ ~ContainsDotSvc(name)
    /\ name \notin local_names
    /\ \A ln \in local_names : ~EndsWithDotName(name, ln)

\* `name` ends, label for label, with the non-empty suffix s.
EndsWithSuffix(name, s) ==
    /\ s # <<>>
    /\ Len(name) >= Len(s)
    /\ SubSeq(name, Len(name) - Len(s) + 1, Len(name)) = s

\* C10 as stated: in tunnel mode, for a type-A query whose name is not
\* cluster-safe, only the fallback resolver is ever asked, whatever the
\* suffix list.
C10_NotClusterSafeNeverCluster ==
    (noloop /\ task.asked.type = "A" /\ NotClusterSafeShape(task.asked.name)) =>
        \A i \in 1..Len(task.calls) : task.calls[i].resolver = "fallback"

\* C10, amended: the same, for a name that ends with no learned suffix; the
\* query then goes to the fallback resolver as asked, in one call, unless its
\* first label is a sentinel (a probe or a sanity check asks no upstream).
C10_NotClusterSafeUnstrippedNeverCluster ==
    (/\ noloop /\ task.asked.type = "A"
     /\ NotClusterSafeShape(task.asked.name)
     /\ \A i \in 1..Len(task.seen) :
            ~EndsWithSuffix(task.asked.name, task.seen[i])) =>
        /\ \A i \in 1..Len(task.calls) : task.calls[i].resolver = "fallback"
        /\ (task.status # "idle" /\ task.asked.name[1] \notin SentinelLabels) =>
               task.calls = <<Call("fallback", task.asked)>>

C10_Witness ==
    /\ noloop /\ local_names = {}
    /\ task.asked = [name |-> <<"foo", "bar", "bar">>, type |-> "A"]
    /\ task.seen = << <<"foo">> >>
    /\ Answered

\* The followed query, of type A in tunnel mode, asks for X.S: one label X
\* that is no sentinel, then a suffix S that was learned when it came.
AskedLabelDotLearnedSuffix ==
    /\ noloop
    /\ task.status # "idle"
    /\ task.asked.type = "A"
    /\ Len(task.asked.name) >= 2
    /\ task.asked.name[1] \notin SentinelLabels
    /\ \E i \in 1..Len(task.seen) : task.seen[i] = Tail(task.asked.name)

\* C11: once suffix S is learned, a tunnel-mode type-A query for X.S first
\* asks the cluster resolver for X.<namespace>.svc.cluster.local; the literal
\* name X.S goes upstream only to the fallback resolver, with the query as
\* asked, and only after every call of the stripped resolution has failed.
C11_StrippedNameResolvedFirst ==
    AskedLabelDotLearnedSuffix =>
        /\ task.calls[1] =
               [resolver |-> "cluster",
                name |-> <<task.asked.name[1], namespace, "svc", "cluster", "local">>,
                type |-> "A"]
        /\ \A i \in 1..Len(task.calls) :
               task.calls[i].name = task.asked.name =>
                   /\ task.calls[i].resolver = "fallback"
                   /\ task.calls[i].type = "A"
                   /\ i > 1
                   /\ \A j \in 1..(i - 1) : CallFailed(j)

\* C12: the resolution of one top-level query makes at most one call to the
\* fallback resolver, in every mode, for every type and suffix list.
C12_AtMostOneFallbackCall == Cardinality(CallsTo("fallback")) <= 1

\* The followed query ends with a learned suffix: _strip_search_suffix
\* changes its name.
AskedEndsWithLearnedSuffix ==
    \E i \in 1..Len(task.seen) : EndsWithSuffix(task.asked.name, task.seen[i])

\* A query that is no sanity check has failed: the last upstream asked has
\* failed, it is the fallback resolver or, in plain mode only, the native
\* lookup, and the failure returned is the one of that upstream.  A failed
\* cluster call is always followed by a call to the fallback resolver.
FailureIsOfLastUpstream ==
    /\ (Failed /\ ~identify_sanity_check(task.asked.name)) =>
           /\ Len(task.calls) >= 1
           /\ CallFailed(Len(task.calls))
           /\ LET last == task.calls[Len(task.calls)]
              IN  /\ \/ last.resolver = "fallback"
                     \/ last.resolver = "native" /\ ~noloop
                  /\ task.result =
                         Failure(IF last.resolver = "fallback"
                                 THEN "ResolverError" ELSE "DomainError")
    /\ \A i \in CallsTo("cluster") :
           CallFailed(i) =>
               /\ Len(task.calls) > i
               /\ task.calls[i + 1].resolver = "fallback"
               /\ ~(Failed /\ i = Len(task.calls))

\* The step that returns a failure changes neither the suffix list nor the
\* configuration.
FailureStep ==
    (task.status # "done" /\ task'.status = "done"
         /\ task'.result.kind = "failure")
        => UNCHANGED <<suffixes, noloop, local_names>>

\* C13: a failure returned for a query that is no sanity check is the
\* failure of the last upstream asked, the fallback resolver or the native
\* lookup of plain mode; a failure of the cluster resolver is never returned
\* but followed by a fallback call; the step that returns a failure leaves
\* the suffix list and the configuration as they were.
C13_FailureComesFromLastUpstream ==
    [](FailureIsOfLastUpstream) /\ [][FailureStep]_vars

\* A failure has come back after the cluster resolver failed, the fallback
\* resolver failed for the stripped name and failed for the name asked.
C13_Witness ==
    /\ Failed /\ noloop
    /\ Len(task.calls) = 3
    /\ task.calls[1].resolver = "cluster"
    /\ task.result = Failure("ResolverError")

\* The followed query is of type A, in plain mode, and no sentinel query.
AskedPlainModeA ==
    /\ ~noloop
    /\ task.status # "idle"
    /\ task.asked.type = "A"
    /\ task.asked.name[1] \notin SentinelLabels

\* C14 as stated: in plain mode a type-A query is resolved by the native
\* lookup only, for every suffix list: no other resolver is called, a
\* success is A records under the asked name, a failure is the DomainError.
C14_PlainModeNativeOnly ==
    AskedPlainModeA =>
        /\ \A i \in 1..Len(task.calls) : task.calls[i].resolver = "native"
        /\ Answered => task.result = Answer(got_ips(task.asked.name, NativeIPs, "A"))
        /\ Failed => task.result = Failure("DomainError")

\* C14: in plain mode the cluster resolver is never called.  A type-A query
\* whose name ends with no learned suffix makes one native lookup of the
\* asked name: its success is A records under the asked name, its failure
\* the DomainError, with no other call.  When the name ends with a learned
\* suffix, a failed native lookup is followed by a call to the fallback
\* resolver, and a failure returned is the one of the fallback resolver
\* asked with the query as the caller made it.
C14_PlainModeNativeThenStripFallback ==
    /\ (~noloop) => CallsTo("cluster") = {}
    /\ (AskedPlainModeA /\ ~AskedEndsWithLearnedSuffix) =>
           /\ task.calls = <<[resolver |-> "native",
                              name |-> task.asked.name, type |-> "A"]>>
           /\ Answered => task.result = Answer(got_ips(task.asked.name, NativeIPs, "A"))
           /\ Failed => task.result = Failure("DomainError")
    /\ (AskedPlainModeA /\ AskedEndsWithLearnedSuffix) =>
           /\ \A i \in CallsTo("native") :
                  /\ i = 1
                  /\ CallFailed(i) =>
                         Len(task.calls) > i /\ task.calls[i + 1].resolver = "fallback"
           /\ Failed =>
                  /\ task.calls[Len(task.calls)] =
                         [resolver |-> "fallback",
                          name |-> task.asked.name, type |-> "A"]
                  /\ task.result = Failure("ResolverError")

\* A native lookup of a stripped name has failed and the fallback resolver
\* is asked with the name as the caller gave it.
C14_Witness ==
    /\ AskedPlainModeA /\ AskedEndsWithLearnedSuffix
    /\ task.status = "pending"
    /\ Len(task.calls) = 2
    /\ task.calls[1].resolver = "native"
    /\ task.calls[2] = [resolver |-> "fallback", name |-> task.asked.name, type |-> "A"]

\* The completion as the documentation of the resolver states it.
Completion(name) ==
    IF Len(name) >= 2 /\ name[Len(name)] = "local" THEN name
    ELSE IF Len(name) = 1
         THEN <<name[1], namespace, "svc", "cluster", "local">>
    ELSE IF Len(name) = 2
         THEN <<name[1], name[2], "svc", "cluster", "local">>
    ELSE IF name[Len(name)] = "svc"
         THEN name \o <<"cluster", "local">>
    ELSE name

\* The name the i-th upstream call, one to the cluster resolver, was
\* completed from: the name of the query its fallback errback holds.
CompletedFrom(i) ==
    IF i < Len(task.calls) THEN task.calls[i + 1].name ELSE task.fb.name

\* The first upstream call of a type-A query `name` asked in tunnel mode
\* with no suffix learned is a call to the cluster resolver for `completed`.
CompletesTo(name, completed) ==
    (/\ noloop /\ task.status # "idle" /\ task.seen = <<>>
     /\ task.asked = [name |-> name, type |-> "A"])
        => task.calls[1] = [resolver |-> "cluster", name |-> completed, type |-> "A"]

\* C15: the name sent to the cluster resolver is the Kubernetes completion
\* of the name resolved: unchanged when it ends in .local, s.<namespace>
\* .svc.cluster.local for one label s, s.n.svc.cluster.local for two labels,
\* .cluster.local appended for three labels or more ending in svc, unchanged
\* otherwise; "foo" in namespace bar, "foo.bar" and "foo.bar.svc" all give
\* "foo.bar.svc.cluster.local", "foo.bar.local" stays; completing a
\* completed name changes nothing.
C15_KubernetesCompletion ==
    /\ \A i \in CallsTo("cluster") :
           (i < Len(task.calls) \/ task.status = "pending") =>
               /\ task.calls[i].name = Completion(CompletedFrom(i))
               /\ kube_name(task.calls[i].name) = task.calls[i].name
               /\ Completion(task.calls[i].name) = task.calls[i].name
    /\ CompletesTo(<<"foo">>, <<"foo", "bar", "svc", "cluster", "local">>)
    /\ CompletesTo(<<"foo", "bar">>, <<"foo", "bar", "svc", "cluster", "local">>)
    /\ CompletesTo(<<"foo", "bar", "svc">>, <<"foo", "bar", "svc", "cluster", "local">>)
    /\ CompletesTo(<<"foo", "bar", "local">>, <<"foo", "bar", "local">>)

\* The cluster resolver is asked for "foo.bar.svc.cluster.local", completed
\* from the one-label name "foo" in namespace bar.
C15_Witness ==
    /\ Waits("cluster")
    /\ task.fb.name = <<"foo">>
    /\ task.asked.name = <<"foo">>
    /\ PendingCall(task).name = <<"foo", "bar", "svc", "cluster", "local">>

\* The places in the suffix list of the suffixes that equal, label for
\* label, the tail of `name`.
Matching(sfx, name) == {i \in 1..Len(sfx) : EndsWithSuffix(name, sfx[i])}

\* The names of the nested calls of query() the followed query went
\* through, outermost first, read when query() has just returned.
Levels ==
    [i \in 1..(Len(task.stack) + 1) |->
        IF i <= Len(task.stack) THEN task.stack[i].name
        ELSE IF PendingCall(task).resolver = "cluster" THEN task.fb.name
        ELSE PendingCall(task).name]

\* C16: one call of the strip removes exactly one suffix, the first of the
\* stored list that equals the tail of the name, which is the longest of
\* those that match; a name no suffix matches is left as it is; the empty
\* suffix is never removed.
C16_StripRemovesFirstMatchingSuffix ==
    (task.status = "pending" /\ task.outcomes = <<>>) =>
        /\ Levels[1] = task.asked.name
        /\ Matching(task.seen, Levels[Len(Levels)]) = {}
        /\ \A k \in 1..(Len(Levels) - 1) :
               LET m == Matching(task.seen, Levels[k])
               IN  /\ m # {}
                   /\ \E i \in m :
                          /\ \A j \in m : i <= j /\ Len(task.seen[j]) <= Len(task.seen[i])
                          /\ task.seen[i] # <<>>
                          /\ LET stem == SubSeq(Levels[k], 1,
                                                Len(Levels[k]) - Len(task.seen[i]))
                             IN  Levels[k + 1] = IF stem = <<>> THEN <<"">> ELSE stem

\* "foo.foo.bar" has lost "foo.bar", the longer of the two learned suffixes
\* that match it, and the empty suffix, learned too, has not stopped that.
C16_Witness ==
    /\ task.status = "pending" /\ task.outcomes = <<>>
    /\ task.asked.name = <<"foo", "foo", "bar">>
    /\ Matching(task.seen, task.asked.name) = {1, 2}
    /\ task.seen[Len(task.seen)] = <<>>
    /\ Levels = << <<"foo", "foo", "bar">>, <<"foo">> >>

\* The followed query is of a type other than A and AAAA.
AskedOtherType == task.status # "idle" /\ task.asked.type \notin {"A", "AAAA"}

\* One call to the fallback resolver with the query as asked, its result
\* returned as it is.
DelegatedVerbatim ==
    /\ task.calls = <<[resolver |-> "fallback", name |-> task.asked.name,
                       type |-> task.asked.type]>>
    /\ Answered =>
           task.result = Answer(got_ips(task.asked.name, FallbackIPs, task.asked.type))
    /\ Failed => task.result = Failure("ResolverError")
    /\ Finished => Len(task.outcomes) = 1

\* C17 as stated: a query of a type other than A and AAAA makes exactly one
\* call, to the fallback resolver, with its name and type unchanged, and
\* returns that result, for every name and every suffix list.
C17_OtherTypeDelegatedVerbatim == AskedOtherType => DelegatedVerbatim

\* C17: a query of a type other than A and AAAA never reaches the cluster
\* resolver nor the native lookup and every call it makes carries its type;
\* when its name starts with no sentinel and ends with no learned suffix it
\* makes exactly one call, to the fallback resolver, with its name and type
\* unchanged, and returns that result as it is.
C17_OtherTypeDelegatedUnlessSentinelOrSuffix ==
    AskedOtherType =>
        /\ \A i \in 1..Len(task.calls) :
               /\ task.calls[i].resolver = "fallback"
               /\ task.calls[i].type = task.asked.type
        /\ (task.asked.name[1] \notin SentinelLabels /\ ~AskedEndsWithLearnedSuffix)
               => DelegatedVerbatim

\* An MX query for a name that ends with no learned suffix, while suffixes
\* are learned, has got the answer of the fallback resolver.
C17_Witness ==
    /\ AskedOtherType /\ Answered
    /\ task.seen # <<>>
    /\ task.asked.name[1] \notin SentinelLabels
    /\ ~AskedEndsWithLearnedSuffix
    /\ task.outcomes = <<"ok">>

\* C18: the cluster resolver and the fallback resolver are asked one after
\* the other: at most one upstream call is in flight, a call follows a
\* cluster call only when that one has failed, the fallback resolver is
\* called only when every earlier call has failed, and an answer of the
\* cluster resolver ends the resolution with no further call.
C18_ClusterThenFallbackInSequence ==
    /\ Len(task.outcomes) <= Len(task.calls)
    /\ Len(task.calls) <= Len(task.outcomes) + 1
    /\ \A i \in CallsTo("cluster") :
           /\ i < Len(task.calls) => CallFailed(i)
           /\ (i <= Len(task.outcomes) /\ task.outcomes[i] = "ok")
                  => i = Len(task.calls) /\ Answered
    /\ \A i \in CallsTo("fallback") : \A j \in 1..(i - 1) : CallFailed(j)

\* The cluster resolver has failed and the fallback resolver, asked after
\* that, is still to answer.
C18_Witness ==
    /\ Waits("fallback")
    /\ Len(task.calls) = 2
    /\ task.calls[1].resolver = "cluster"
    /\ task.outcomes = <<"fail">>

\* C19: the depth of the nested suffix-strip recursion of one query is at
\* most the number of distinct learned suffixes; with one suffix learned
\* there is at most one level of strip and retry.
C19_DepthAtMostNumberOfSuffixes ==
    (task.status = "pending" /\ task.outcomes = <<>>) =>
        Len(task.stack) <= Len(task.seen)

\* The bounds of one resolution: each strip level has lost at least one
\* label of the level above, the levels are at most as many as the asked
\* name has labels, and the upstream calls at most two more than that.
ResolutionBounds ==
    /\ task.status # "idle" =>
           /\ Len(task.stack) <= Len(task.asked.name)
           /\ Len(task.calls) <= Len(task.asked.name) + 2
    /\ (task.status = "pending" /\ task.outcomes = <<>>) =>
           \A k \in 1..(Len(Levels) - 1) :
               \/ Levels[k + 1] = <<"">>
               \/ Len(Levels[k + 1]) < Len(Levels[k])

\* C20: provided every upstream call ends, every resolution ends: the strip
\* recursion has at most as many levels as the asked name has labels, each
\* level having lost at least one label, also when one suffix matches again
\* and again; the upstream calls number at most the label count plus two;
\* a pending resolution leads to a result.
C20_EveryResolutionTerminates ==
    /\ [](ResolutionBounds)
    /\ (task.status = "pending") ~> (task.status = "done")

\* "foo.bar.bar" with the one suffix "bar" learned went through two strip
\* levels and has failed after four upstream calls.
C20_Witness ==
    /\ Failed
    /\ task.seen = << <<"bar">> >>
    /\ task.asked = [name |-> <<"foo", "bar", "bar">>, type |-> "A"]
    /\ noloop
    /\ Len(task.calls) = 4

====
